---- MODULE Spec2Model ----
(***************************************************************************)
(* Model of test::OrderedList<uint32_t, Comparator> (src/orderedlist.h,    *)
(* instantiated as in src/orderedlist_test.cc): a sorted singly linked     *)
(* chain behind a sentinel head, one writer thread calling Insert and one  *)
(* reader thread calling Contains and the Iterator operations.             *)
(*                                                                         *)
(* Memory: next[n] is the value of n->next_ that other threads can load.   *)
(* A relaxed store (NoBarrierSetNext) goes to the writer's buffer wbuf and *)
(* becomes visible at some later step (Flush); a release store (SetNext)   *)
(* makes every earlier store of the writer visible together with itself.   *)
(* The writer always reads its own latest stores.                          *)
(*                                                                         *)
(* Failure: an assertion failure (debug build) and a null dereference end  *)
(* the process; err records the kind and the operation, and no action is   *)
(* enabled afterwards.  Both builds are modelled: ndebug is fixed in Init. *)
(* No action is enabled either once the list object is destroyed (live).   *)
(*                                                                         *)
(* Steps: each load of a link by the reader is a step of its own, so that  *)
(* Inserts interleave with every search; the writer's search is one step,  *)
(* its two stores are one step each.  trav, snap and visited only record   *)
(* what the reader did; no action reads them to decide what the code does. *)
(***************************************************************************)
EXTENDS Integers, Sequences, FiniteSets, TLC

\* ---------------------------------------------------------------- bounds
MaxKey == 3
MaxInserts == 3

\* ------------------------------------------------------------- constants
Null == 0
head_ == 1
HeadKey == 0
Uninit == 0 - 1

Keys == 0 .. MaxKey
NodeIds == 1 .. (MaxInserts + 1)
NoErr == <<"none", "">>

VARIABLES
  ndebug,     \* TRUE: built with NDEBUG, assert() compiles to nothing
  err,        \* <<kind, operation>>: "none", "assert" or "nullderef"
  nalloc,     \* nodes 1..nalloc have been returned by NewNode
  key,        \* key[n]: Node::key
  next,       \* next[n]: Node::next_ as visible to every thread
  wbuf,       \* the writer's relaxed stores not yet visible: {<<n, v>>}
  begin_,     \* OrderedList::begin_.node_
  end_,       \* OrderedList::end_.node_
  wpc,        \* writer: position inside Insert
  wkey,       \* writer: Insert's argument
  wprev,      \* writer: Insert's local prev
  wx,         \* writer: Insert's local x
  dupCalled,  \* history: Insert was called with a key already in the chain
  rpc,        \* reader: position inside its current operation
  rop,        \* reader: the operation in progress, or the last one completed
  rkey,       \* reader: the key argument of the operation
  rx,         \* reader: local x of the search helper
  it,         \* reader: Iterator::node_ of the reader's own iterator
  rres,       \* reader: what Contains returned ("none" before it returns)
  trav,       \* history: "fwd" / "bwd" while a traversal is under way
  snap,       \* history: the stored keys when the search or traversal started
  visited,    \* history: the keys the traversal was positioned at, in order
  live,       \* the OrderedList object has not been destroyed
  freed       \* the nodes that were passed to delete

mem == <<nalloc, key, next, wbuf>>
wvars == <<wpc, wkey, wprev, wx, dupCalled>>
lvars == <<begin_, end_>>
rvars == <<rpc, rop, rkey, rx, it, rres>>
tvars == <<trav, snap, visited>>
hvars == <<live, freed>>
vars == <<ndebug, err, nalloc, key, next, wbuf, begin_, end_, wpc, wkey, wprev,
          wx, dupCalled, rpc, rop, rkey, rx, it, rres, trav, snap, visited,
          live, freed>>

\* ------------------------------------------------------------ comparator
compare_(a, b) ==
  IF a < b THEN 0 - 1 ELSE IF a # b THEN 1 ELSE 0

Equal(a, b) == compare_(a, b) = 0

\* ------------------------------------------------------------------ Node
\* Node::Next / Node::NoBarrierNext by a thread whose view of memory is m
NodeNext(m, n) == m[n]

\* the successor is lost
NoBarrierNext_Null(m, n) == Null

NoBarrierNext(m, n) == m[n]

\* what the writer thread reads: its own buffered stores first
WriterView(m, buf) ==
  [n \in NodeIds |->
     IF \E e \in buf : e[1] = n
       THEN (CHOOSE e \in buf : e[1] = n)[2]
       ELSE m[n]]

\* Node::NoBarrierSetNext: relaxed store, result is <<memory, buffer>>
NoBarrierSetNext(m, buf, n, v) ==
  <<m, {e \in buf : e[1] # n} \cup {<<n, v>>}>>

\* the store is made visible on its own, earlier stores stay buffered
SetNext_Relaxed(m, buf, n, v) ==
  <<[m EXCEPT ![n] = v], {e \in buf : e[1] # n}>>

\* Node::SetNext: release store, result is <<memory, buffer>>
SetNext(m, buf, n, v) ==
  <<[WriterView(m, buf) EXCEPT ![n] = v], {}>>

\* ------------------------------------------------------- search helpers
KeyIsAfterNode(k, n) == (n # Null) /\ (compare_(key[n], k) < 0)

\* the search stops right behind head_
FGECond_HeadOnly(k, x) == x = head_ /\ KeyIsAfterNode(k, x)

\* loop condition of FindGreaterOrEqual
FGECond(k, x) == x # Null /\ KeyIsAfterNode(k, x)

\* FindGreaterOrEqual run to completion on memory m: <<x, prev>>
RECURSIVE FGEWalk(_, _, _, _)
FGEWalk(m, k, x, prev) ==
  IF FGECond(k, x) THEN FGEWalk(m, k, NodeNext(m, x), x) ELSE <<x, prev>>

FindGreaterOrEqual(m, k) == FGEWalk(m, k, head_, Null)

\* ------------------------------------------------------- chain (derived)
RECURSIVE ChainFrom(_, _, _)
ChainFrom(m, n, fuel) ==
  IF n \notin NodeIds \/ fuel = 0 THEN <<>>
  ELSE <<n>> \o ChainFrom(m, m[n], fuel - 1)

\* the nodes a reader can reach from head_, in order, head_ first
Chain == ChainFrom(next, head_, MaxInserts + 2)
Stored == Tail(Chain)
StoredKeys == {key[Stored[i]] : i \in 1 .. Len(Stored)}

\* ----------------------------------------------------------------- Init
\* OrderedList::OrderedList: head_ = NewNode(0); head_->SetNext(nullptr);
\* begin_.SeekToFirst(); both iterators start with node_ = nullptr
Init ==
  /\ ndebug \in BOOLEAN
  /\ err = NoErr
  /\ live = TRUE
  /\ freed = {}
  /\ nalloc = 1
  /\ key = [n \in NodeIds |-> HeadKey]
  /\ next = [n \in NodeIds |-> IF n = head_ THEN Null ELSE Uninit]
  /\ wbuf = {}
  /\ begin_ = Null
  /\ end_ = Null
  /\ wpc = "idle"
  /\ wkey = 0
  /\ wprev = Null
  /\ wx = Null
  /\ dupCalled = FALSE
  /\ rpc = "idle"
  /\ rop = "none"
  /\ rkey = 0
  /\ rx = Null
  /\ it = Null
  /\ rres = "none"
  /\ trav = "none"
  /\ snap = {}
  /\ visited = <<>>

\* --------------------------------------------------------------- Insert
\* the assertion is left out
InsertAssertOk_Absent(k, x) == TRUE

\* assert(x == nullptr || !Equal(key, x->key))
InsertAssertOk(k, x) == x = Null \/ ~Equal(k, key[x])

\* Node* prev = nullptr; x = FindGreaterOrEqual(key, &prev); the assertion;
\* x = NewNode(key), whose next_ is not initialised.  The search reads only
\* links that the writer itself wrote, so it is one step.  The model follows
\* the writer up to the first call that breaks Insert's precondition.
InsertCall(k) ==
  /\ err = NoErr
  /\ live
  /\ wpc = "idle"
  /\ nalloc < MaxInserts + 1
  /\ ~dupCalled
  /\ LET r == FindGreaterOrEqual(WriterView(next, wbuf), k)
     IN  /\ wprev' = r[2]
         /\ IF ~ndebug /\ ~InsertAssertOk(k, r[1])
              THEN /\ err' = <<"assert", "Insert">>
                   /\ wx' = r[1]
                   /\ wpc' = "assert"
                   /\ UNCHANGED mem
              ELSE /\ nalloc' = nalloc + 1
                   /\ key' = [key EXCEPT ![nalloc + 1] = k]
                   /\ wx' = nalloc + 1
                   /\ wpc' = "link"
                   /\ UNCHANGED <<err, next, wbuf>>
  /\ wkey' = k
  /\ dupCalled' = (dupCalled \/ k \in StoredKeys)
  /\ UNCHANGED <<hvars, ndebug, lvars>>
  /\ UNCHANGED <<rvars, tvars>>

\* x->NoBarrierSetNext(prev->NoBarrierNext())
InsertLink ==
  /\ err = NoErr
  /\ live
  /\ wpc = "link"
  /\ IF wprev = Null
       THEN /\ err' = <<"nullderef", "Insert">>
            /\ UNCHANGED <<next, wbuf, wpc>>
       ELSE LET r == NoBarrierSetNext(next, wbuf, wx,
                       NoBarrierNext(WriterView(next, wbuf), wprev))
            IN  /\ next' = r[1]
                /\ wbuf' = r[2]
                /\ wpc' = "publish"
                /\ UNCHANGED err
  /\ UNCHANGED <<hvars, ndebug, nalloc, key, lvars, wkey, wprev, wx, dupCalled>>
  /\ UNCHANGED <<rvars, tvars>>

\* prev->SetNext(x), and return
InsertPublish ==
  /\ err = NoErr
  /\ live
  /\ wpc = "publish"
  /\ LET r == SetNext(next, wbuf, wprev, wx)
     IN  /\ next' = r[1]
         /\ wbuf' = r[2]
  /\ wpc' = "idle"
  /\ UNCHANGED <<hvars, ndebug, err, nalloc, key, lvars, wkey, wprev, wx,
                 dupCalled>>
  /\ UNCHANGED <<rvars, tvars>>

\* a relaxed store of the writer becomes visible to the other threads
Flush ==
  /\ err = NoErr
  /\ live
  /\ \E e \in wbuf :
       /\ next' = [next EXCEPT ![e[1]] = e[2]]
       /\ wbuf' = wbuf \ {e}
  /\ UNCHANGED <<hvars, ndebug, err, nalloc, key, lvars, wvars>>
  /\ UNCHANGED <<rvars, tvars>>

\* ------------------------------------------------------ search helpers 2
\* FindLessThan's loop condition dereferences x->Next() without a null test
FLTDerefOk(m, x) == NodeNext(m, x) \in NodeIds

\* the walk also passes a node whose key equals key
FLTCond_LessEq(m, k, x) == compare_(key[NodeNext(m, x)], k) <= 0

\* compare_(x->Next()->key, key) < 0
FLTCond(m, k, x) == compare_(key[NodeNext(m, x)], k) < 0

Crash == 0 - 2

\* FindLessThan run to completion on memory m: a node, or Crash
RECURSIVE FLTWalk(_, _, _)
FLTWalk(m, k, x) ==
  IF x = Null THEN x
  ELSE IF ~FLTDerefOk(m, x) THEN Crash
  ELSE IF FLTCond(m, k, x) THEN FLTWalk(m, k, NodeNext(m, x))
  ELSE x

FindLessThan(m, k) == FLTWalk(m, k, head_)

\* the successor is not tested
FLCond_NoNextTest(m, x) == x # Null

\* loop condition of FindLast
FLCond(m, x) == x # Null /\ NodeNext(m, x) # Null

RECURSIVE FLWalk(_, _)
FLWalk(m, x) == IF FLCond(m, x) THEN FLWalk(m, NodeNext(m, x)) ELSE x

FindLast(m) == FLWalk(m, head_)

\* -------------------------------------------------------------- Iterator
Valid(n) == n # Null

\* Iterator::operator!=
IterNotEqual(a, b) == a # b

\* the head test is left out
HideHead_Keep(n) == n

\* SeekToLast / Prev: if (node_ == list_->head_) node_ = nullptr
HideHead(n) == IF n = head_ THEN Null ELSE n

\* Contains' return expression
ContainsResult(k, x) == x # Null /\ Equal(k, key[x])

\* history: the traversal is now positioned at n
Visit(seq, n) == IF n \in NodeIds THEN Append(seq, key[n]) ELSE seq

\* --------------------------------------------------------------- reader
\* bool Contains(key): first line of FindGreaterOrEqual(key, nullptr)
ContainsCall(k) ==
  /\ err = NoErr
  /\ live
  /\ rpc = "idle"
  /\ rpc' = "fge"
  /\ rop' = "Contains"
  /\ rkey' = k
  /\ rx' = head_
  /\ rres' = "none"
  /\ trav' = "none"
  /\ snap' = StoredKeys
  /\ visited' = <<>>
  /\ UNCHANGED <<hvars, ndebug, err, mem, lvars, wvars, it>>

\* Iterator::Seek(target): first line of FindGreaterOrEqual(target, nullptr)
SeekCall(k) ==
  /\ err = NoErr
  /\ live
  /\ rpc = "idle"
  /\ rpc' = "fge"
  /\ rop' = "Seek"
  /\ rkey' = k
  /\ rx' = head_
  /\ rres' = "none"
  /\ trav' = "none"
  /\ snap' = StoredKeys
  /\ visited' = <<>>
  /\ UNCHANGED <<hvars, ndebug, err, mem, lvars, wvars, it>>

\* FindGreaterOrEqual's loop body in the reader: x = x->Next()
ReaderFind ==
  /\ err = NoErr
  /\ live
  /\ rpc = "fge"
  /\ rx \in NodeIds \cup {Null}
  /\ FGECond(rkey, rx)
  /\ rx' = NodeNext(next, rx)
  /\ UNCHANGED <<hvars, ndebug, err, mem, lvars, wvars, rpc, rop, rkey, it,
                 rres, tvars>>

\* return (x != nullptr && Equal(key, x->key))
ContainsReturn ==
  /\ err = NoErr
  /\ live
  /\ rpc = "fge"
  /\ rop = "Contains"
  /\ rx \in NodeIds \cup {Null}
  /\ ~FGECond(rkey, rx)
  /\ rres' = (IF ContainsResult(rkey, rx) THEN "true" ELSE "false")
  /\ rpc' = "idle"
  /\ rx' = Null
  /\ UNCHANGED <<hvars, ndebug, err, mem, lvars, wvars, rop, rkey, it, tvars>>

\* node_ = list_->FindGreaterOrEqual(target, nullptr)
SeekReturn ==
  /\ err = NoErr
  /\ live
  /\ rpc = "fge"
  /\ rop = "Seek"
  /\ rx \in NodeIds \cup {Null}
  /\ ~FGECond(rkey, rx)
  /\ it' = rx
  /\ rpc' = "idle"
  /\ rx' = Null
  /\ UNCHANGED <<hvars, ndebug, err, mem, lvars, wvars, rop, rkey, rres, tvars>>

\* Iterator::SeekToFirst on the reader's iterator
SeekToFirst ==
  /\ err = NoErr
  /\ live
  /\ rpc = "idle"
  /\ it' = NodeNext(next, head_)
  /\ rop' = "SeekToFirst"
  /\ rkey' = 0
  /\ rres' = "none"
  /\ trav' = "fwd"
  /\ snap' = StoredKeys
  /\ visited' = Visit(<<>>, it')
  /\ UNCHANGED <<hvars, ndebug, err, mem, lvars, wvars, rpc, rx>>

\* OrderedList::begin: begin_.SeekToFirst(); return begin_;
\* the caller copies the result (auto __begin = list.begin())
Begin ==
  /\ err = NoErr
  /\ live
  /\ rpc = "idle"
  /\ begin_' = NodeNext(next, head_)
  /\ it' = begin_'
  /\ rop' = "begin"
  /\ rkey' = 0
  /\ rres' = "none"
  /\ trav' = "fwd"
  /\ snap' = StoredKeys
  /\ visited' = Visit(<<>>, it')
  /\ UNCHANGED <<hvars, ndebug, err, mem, end_, wvars, rpc, rx>>

\* Iterator::Next and Iterator::operator++:
\* assert(Valid()); node_ = node_->Next();
IterNext ==
  /\ err = NoErr
  /\ live
  /\ rpc = "idle"
  /\ it \in NodeIds \cup {Null}
  /\ IF ~Valid(it)
       THEN /\ err' = <<IF ndebug THEN "nullderef" ELSE "assert", "Next">>
            /\ UNCHANGED <<rvars, tvars>>
       ELSE /\ it' = NodeNext(next, it)
            /\ rop' = "Next"
            /\ rkey' = 0
            /\ rres' = "none"
            /\ IF trav = "fwd"
                 THEN /\ visited' = Visit(visited, it')
                      /\ UNCHANGED <<trav, snap>>
                 ELSE /\ trav' = "none"
                      /\ snap' = {}
                      /\ visited' = <<>>
            /\ UNCHANGED <<err, rpc, rx>>
  /\ UNCHANGED <<hvars, ndebug, mem, lvars, wvars>>

\* Iterator::key and Iterator::operator*: assert(Valid()); return node_->key
\* (rkey records the key returned)
IterKey ==
  /\ err = NoErr
  /\ live
  /\ rpc = "idle"
  /\ it \in NodeIds \cup {Null}
  /\ IF ~Valid(it)
       THEN /\ err' = <<IF ndebug THEN "nullderef" ELSE "assert", "key">>
            /\ UNCHANGED <<rvars, tvars>>
       ELSE /\ rop' = "key"
            /\ rkey' = key[it]
            /\ rres' = "none"
            /\ UNCHANGED <<err, rpc, rx, it, tvars>>
  /\ UNCHANGED <<hvars, ndebug, mem, lvars, wvars>>

\* Iterator::SeekToLast: first line of FindLast
SeekToLastCall ==
  /\ err = NoErr
  /\ live
  /\ rpc = "idle"
  /\ rpc' = "fl"
  /\ rop' = "SeekToLast"
  /\ rkey' = 0
  /\ rx' = head_
  /\ rres' = "none"
  /\ trav' = "none"
  /\ snap' = StoredKeys
  /\ visited' = <<>>
  /\ UNCHANGED <<hvars, ndebug, err, mem, lvars, wvars, it>>

\* FindLast's loop condition holds: x != nullptr && x->Next() != nullptr
FindLastTest ==
  /\ err = NoErr
  /\ live
  /\ rpc = "fl"
  /\ rx \in NodeIds \cup {Null}
  /\ FLCond(next, rx)
  /\ rpc' = "fl2"
  /\ UNCHANGED <<hvars, ndebug, err, mem, lvars, wvars, rop, rkey, rx, it,
                 rres, tvars>>

\* the loop body does not advance
FindLastStep_NoAdvance ==
  /\ err = NoErr
  /\ live
  /\ rpc = "fl2"
  /\ rpc' = "fl"
  /\ UNCHANGED <<hvars, ndebug, err, mem, lvars, wvars, rop, rkey, rx, it,
                 rres, tvars>>

\* FindLast's loop body: x = x->Next()
FindLastStep ==
  /\ err = NoErr
  /\ live
  /\ rpc = "fl2"
  /\ rx \in NodeIds
  /\ rx' = NodeNext(next, rx)
  /\ rpc' = "fl"
  /\ UNCHANGED <<hvars, ndebug, err, mem, lvars, wvars, rop, rkey, it, rres,
                 tvars>>

\* FindLast returns; node_ = x; if (node_ == list_->head_) node_ = nullptr
SeekToLastReturn ==
  /\ err = NoErr
  /\ live
  /\ rpc = "fl"
  /\ rx \in NodeIds \cup {Null}
  /\ ~FLCond(next, rx)
  /\ it' = HideHead(rx)
  /\ rpc' = "idle"
  /\ rx' = Null
  /\ trav' = "bwd"
  /\ UNCHANGED snap
  /\ visited' = Visit(<<>>, it')
  /\ UNCHANGED <<hvars, ndebug, err, mem, lvars, wvars, rop, rkey, rres>>

\* Iterator::Prev: assert(Valid()); first line of FindLessThan(node_->key)
PrevCall ==
  /\ err = NoErr
  /\ live
  /\ rpc = "idle"
  /\ it \in NodeIds \cup {Null}
  /\ IF ~Valid(it)
       THEN /\ err' = <<IF ndebug THEN "nullderef" ELSE "assert", "Prev">>
            /\ UNCHANGED <<rvars, tvars>>
       ELSE /\ rpc' = "flt"
            /\ rop' = "Prev"
            /\ rkey' = key[it]
            /\ rx' = head_
            /\ rres' = "none"
            /\ IF trav = "bwd"
                 THEN UNCHANGED tvars
                 ELSE /\ trav' = "none"
                      /\ snap' = StoredKeys
                      /\ visited' = <<>>
            /\ UNCHANGED <<err, it>>
  /\ UNCHANGED <<hvars, ndebug, mem, lvars, wvars>>

\* FindLessThan's loop condition: x != nullptr && compare_(x->Next()->key, key) < 0
FindLessThanTest ==
  /\ err = NoErr
  /\ live
  /\ rpc = "flt"
  /\ rx \in NodeIds
  /\ IF ~FLTDerefOk(next, rx)
       THEN /\ err' = <<"nullderef", "Prev">>
            /\ UNCHANGED rpc
       ELSE /\ FLTCond(next, rkey, rx)
            /\ rpc' = "flt2"
            /\ UNCHANGED err
  /\ UNCHANGED <<hvars, ndebug, mem, lvars, wvars, rop, rkey, rx, it, rres,
                 tvars>>

\* FindLessThan's loop body: x = x->Next()
FindLessThanStep ==
  /\ err = NoErr
  /\ live
  /\ rpc = "flt2"
  /\ rx \in NodeIds
  /\ rx' = NodeNext(next, rx)
  /\ rpc' = "flt"
  /\ UNCHANGED <<hvars, ndebug, err, mem, lvars, wvars, rop, rkey, it, rres,
                 tvars>>

\* FindLessThan returns; node_ = x; if (node_ == list_->head_) node_ = nullptr
PrevReturn ==
  /\ err = NoErr
  /\ live
  /\ rpc = "flt"
  /\ rx \in NodeIds \cup {Null}
  /\ rx = Null \/ (FLTDerefOk(next, rx) /\ ~FLTCond(next, rkey, rx))
  /\ it' = HideHead(rx)
  /\ rpc' = "idle"
  /\ rx' = Null
  /\ IF trav = "bwd"
       THEN /\ visited' = Visit(visited, it')
            /\ UNCHANGED <<trav, snap>>
       ELSE UNCHANGED tvars
  /\ UNCHANGED <<hvars, ndebug, err, mem, lvars, wvars, rop, rkey, rres>>

\* The list object is destroyed when no operation is under way (the end of
\* main in the test).  The class declares no destructor: the implicit one
\* destroys the members compare_, head_ (a raw pointer), begin_ and end_,
\* and deletes no node.
Destroy ==
  /\ err = NoErr
  /\ live
  /\ wpc = "idle"
  /\ rpc = "idle"
  /\ live' = FALSE
  /\ freed' = freed
  /\ UNCHANGED <<ndebug, err, mem, lvars, wvars, rvars, tvars>>

Next ==
  \/ \E k \in Keys : InsertCall(k)
  \/ InsertLink
  \/ InsertPublish
  \/ Flush
  \/ \E k \in Keys : ContainsCall(k)
  \/ \E k \in Keys : SeekCall(k)
  \/ ReaderFind
  \/ ContainsReturn
  \/ SeekReturn
  \/ SeekToFirst
  \/ Begin
  \/ IterNext
  \/ IterKey
  \/ SeekToLastCall
  \/ FindLastTest
  \/ FindLastStep
  \/ SeekToLastReturn
  \/ PrevCall
  \/ FindLessThanTest
  \/ FindLessThanStep
  \/ PrevReturn
  \/ Destroy

Spec == Init /\ [][Next]_vars
\* ------------------------------------------------- derived, for properties
SeqRange(s) == {s[i] : i \in 1 .. Len(s)}
Reverse(s) == [i \in 1 .. Len(s) |-> s[Len(s) + 1 - i]]
IsPrefix(a, b) == Len(a) <= Len(b) /\ \A i \in 1 .. Len(a) : a[i] = b[i]
StrictlyAscending(s) == \A i \in 1 .. (Len(s) - 1) : compare_(s[i], s[i + 1]) < 0
MinKey(S) == CHOOSE k \in S : \A j \in S : k <= j
MaxOfKeys(S) == CHOOSE k \in S : \A j \in S : j <= k

\* the keys of the chain in chain order, head_ left out
StoredKeySeq == [i \in 1 .. Len(Stored) |-> key[Stored[i]]]

\* the keys of the Insert calls that have returned
InsertedKeys ==
  {key[n] : n \in {m \in 2 .. nalloc : ~(wpc \in {"link", "publish"} /\ m = wx)}}

\* SeekToFirst(); while (Valid()) Next();  on memory m, run to completion
RECURSIVE FwdFrom(_, _, _)
FwdFrom(m, n, fuel) ==
  IF ~Valid(n) \/ fuel = 0 THEN <<>>
  ELSE <<key[n]>> \o FwdFrom(m, NodeNext(m, n), fuel - 1)

FwdKeys == FwdFrom(next, NodeNext(next, head_), MaxInserts + 2)

\* SeekToLast(); while (Valid()) Prev();  on memory m, run to completion
RECURSIVE BwdFrom(_, _, _)
BwdFrom(m, n, fuel) ==
  IF ~Valid(n) \/ fuel = 0 THEN <<>>
  ELSE LET p == FindLessThan(m, key[n])
       IN  <<key[n]>> \o (IF p = Crash THEN <<Crash>>
                           ELSE BwdFrom(m, HideHead(p), fuel - 1))

BwdKeys == BwdFrom(next, HideHead(FindLast(next)), MaxInserts + 2)

ReaderIdle == rpc = "idle"
FwdDone == trav = "fwd" /\ ~Valid(it) /\ ~IterNotEqual(it, end_)
BwdDone == trav = "bwd" /\ ~Valid(it)
\* no Insert was published since the search or traversal started
Clean == snap = StoredKeys

\* ------------------------------------------------------------------- I1
\* Invariant I1 for the Inserts that returned: with pairwise distinct keys
\* the chain is strictly ascending and holds exactly their keys, and a
\* forward iteration with no Insert published meanwhile yields them in order.
I1_SortedChain ==
  ~dupCalled =>
    /\ StrictlyAscending(StoredKeySeq)
    /\ SeqRange(StoredKeySeq) = InsertedKeys
    /\ Len(Stored) = Cardinality(InsertedKeys)
    /\ (trav = "fwd" /\ Clean) => IsPrefix(visited, StoredKeySeq)
    /\ (FwdDone /\ Clean) => visited = StoredKeySeq

\* ------------------------------------------------------------------- C1
\* the keys of the Insert calls that have ended, by returning or by failing
EndedInsertKeys ==
  InsertedKeys \cup (IF err[2] = "Insert" THEN {wkey} ELSE {})

\* C1: for every sequence of Insert calls with pairwise distinct keys, the
\* chain behind head_ is strictly ascending without duplicates and a full
\* forward iteration (begin()/SeekToFirst(), then Next()/++ until the
\* iterator equals end()) yields exactly the keys Insert was called with,
\* each once, in strictly ascending order.
C1_IterationYieldsInserted ==
  ~dupCalled =>
    /\ StrictlyAscending(StoredKeySeq)
    /\ SeqRange(StoredKeySeq) = EndedInsertKeys
    /\ Len(Stored) = Cardinality(EndedInsertKeys)
    /\ (FwdDone /\ Clean) =>
         /\ visited = StoredKeySeq
         /\ SeqRange(visited) = EndedInsertKeys
         /\ StrictlyAscending(visited)

\* ------------------------------------------------------------------- C2
ContainsDone == rop = "Contains" /\ ReaderIdle

\* C2: after any sequence of Inserts, Contains(k) returns true for every
\* inserted key k and false for every key that was never inserted (no
\* Insert being published while Contains runs); it is never true only
\* because k equals the key of the sentinel head_.
C2_ContainsExact ==
  (ContainsDone /\ Clean) => (rres = "true" <=> rkey \in InsertedKeys)

\* ------------------------------------------------------------------- C3
InsertFails ==
  /\ err = NoErr
  /\ err'[2] = "Insert"

\* C3: an Insert of a key that is not in the chain completes without an
\* assertion failure or a null dereference; when it returns the chain is
\* one node longer, holds the key, and is still strictly ascending.
C3_InsertCompletes ==
  [][ /\ (InsertFails => wkey' \in StoredKeys)
      /\ (InsertPublish /\ ~dupCalled) =>
            /\ Len(Stored') = Len(Stored) + 1
            /\ StoredKeys' = StoredKeys \cup {wkey}
            /\ wkey \notin StoredKeys
            /\ StrictlyAscending(StoredKeySeq') ]_vars

\* ------------------------------------------------------------------- C4
SeekDone == rop = "Seek" /\ ReaderIdle
KeysAtLeast(k) == {j \in StoredKeys : compare_(j, k) >= 0}

LinkOk(n) ==
  /\ next[n] # Uninit
  /\ \/ next[n] = Null
     \/ /\ next[n] \in 1 .. nalloc
        /\ compare_(key[n], key[next[n]]) < 0

FullyLinked ==
  /\ \A i \in 1 .. Len(Chain) : LinkOk(Chain[i])
  /\ rx # Uninit
  /\ it # Uninit

\* the nodes whose Insert has executed its publishing store, and head_
Published ==
  {n \in 1 .. nalloc : ~(wpc \in {"link", "publish"} /\ n = wx)}

\* C5: in every interleaving of the writer's Insert steps with reader steps,
\* the new node's link is written (and visible) before the node is reachable
\* from head_: every node reachable from head_ has an initialised link that
\* is null or a chain node with a strictly greater key, no reader ever holds
\* an uninitialised link, and the reachable chain is exactly the published
\* nodes: the old chain until the publishing store, the new node fully
\* linked in after it.
C5_NeverHalfLinked ==
  ~dupCalled =>
    /\ FullyLinked
    /\ SeqRange(Chain) = Published
    /\ Len(Chain) = Cardinality(Published)

\* a reader's traversal stands on a node published after the traversal
\* started, and that node has a successor
C5_Witness ==
  /\ ~dupCalled
  /\ trav = "fwd"
  /\ it \in NodeIds
  /\ key[it] \notin snap
  /\ next[it] \in NodeIds
  /\ rop = "Next"

\* ------------------------------------------------------------------- C6
KeysAfter(k) == {j \in StoredKeys : compare_(k, j) < 0}

\* every key of the snapshot that the traversal has passed was visited
NoneSkipped ==
  trav = "fwd" =>
    \A k \in snap :
      \/ k \in SeqRange(visited)
      \/ Valid(it) /\ compare_(key[it], k) < 0

\* Next moves to the node holding the least stored key above the current one
NextIsSuccessor ==
  (IterNext /\ Valid(it) /\ ~dupCalled) =>
     IF KeysAfter(key[it]) = {}
       THEN ~Valid(it')
       ELSE Valid(it') /\ key[it'] = MinKey(KeysAfter(key[it]))

\* C6: a reader operation that starts after Insert(key) executed its
\* publishing store observes key: Contains(key) returns true, and a forward
\* iteration started afterwards visits key and moves from each node to its
\* correct successor, whatever further Inserts run meanwhile.
C6_PublishedIsObserved ==
  [][ /\ (ContainsDone' /\ rkey' \in snap') => rres' = "true"
      /\ NoneSkipped'
      /\ (FwdDone' => snap' \subseteq SeqRange(visited'))
      /\ NextIsSuccessor ]_vars

\* an iteration that started on a non-empty chain ran to the end while
\* further Inserts were published, and visited one of the new keys as well
C6_Witness ==
  /\ ~dupCalled
  /\ FwdDone
  /\ rop = "Next"
  /\ snap # {}
  /\ snap # StoredKeys
  /\ Len(visited) > Cardinality(snap)

\* ------------------------------------------------------------------- C7
\* C7: on a list built by Inserts of distinct keys, with no Insert published
\* during the traversals, SeekToFirst() + Next() until invalid visits the
\* reverse of what SeekToLast() + Prev() until invalid visits.
C7_Symmetry ==
  ~dupCalled =>
    /\ FwdKeys = Reverse(BwdKeys)
    /\ (trav = "bwd" /\ Clean) =>
         IsPrefix(visited, Reverse(FwdKeys))
    /\ (BwdDone /\ Clean) => visited = Reverse(FwdKeys)
    /\ (trav = "fwd" /\ Clean) =>
         IsPrefix(visited, Reverse(BwdKeys))
    /\ (FwdDone /\ Clean) => visited = Reverse(BwdKeys)

\* a backward traversal of three keys has run to the end
C7_Witness ==
  /\ ~dupCalled
  /\ BwdDone /\ Clean
  /\ rop = "Prev"
  /\ ReaderIdle
  /\ Len(visited) = 3

SeekToLastDone == rop = "SeekToLast" /\ ReaderIdle

\* C9: SeekToFirst() leaves the iterator invalid iff the list is empty and
\* otherwise at the smallest stored key; SeekToLast() leaves it invalid iff
\* the list is empty and otherwise at the largest stored key (no Insert
\* being published meanwhile).
C9_SeekEnds ==
  /\ (rop = "SeekToFirst" /\ Clean) =>
       /\ ~Valid(it) <=> StoredKeys = {}
       /\ Valid(it) => (it \in SeqRange(Stored) /\ key[it] = MinKey(StoredKeys))
  /\ (SeekToLastDone /\ Clean) =>
       /\ ~Valid(it) <=> StoredKeys = {}
       /\ Valid(it) => (it \in SeqRange(Stored) /\ key[it] = MaxOfKeys(StoredKeys))
  /\ (SeekToLastDone /\ snap # {}) => Valid(it)

\* SeekToLast stands on the largest of three keys, which was not the last
\* one inserted
C9_Witness ==
  /\ SeekToLastDone /\ Clean
  /\ Len(Stored) = 3
  /\ Valid(it)
  /\ it # nalloc
  /\ key[it] = MaxOfKeys(StoredKeys)

\* ------------------------------------------------------------------ C10
ReaderStep ==
  \/ \E k \in Keys : ContainsCall(k)
  \/ \E k \in Keys : SeekCall(k)
  \/ ReaderFind
  \/ ContainsReturn
  \/ SeekReturn
  \/ SeekToFirst
  \/ Begin
  \/ IterNext
  \/ IterKey
  \/ SeekToLastCall
  \/ FindLastTest
  \/ FindLastStep
  \/ SeekToLastReturn
  \/ PrevCall
  \/ FindLessThanTest
  \/ FindLessThanStep
  \/ PrevReturn

\* C10: reader operations (Contains, Seek*, Next, Prev, begin()/end()
\* iteration) write nothing shared between threads: the chain and every
\* member of the list object are unchanged by each reader step.
C10_ReadersWriteNothing ==
  [][ReaderStep => UNCHANGED <<nalloc, key, next, wbuf, begin_, end_>>]_vars

\* ------------------------------------------------------------------ C11
\* the node the last Insert allocated stands in the chain right in front of
\* a node with an equal key
AdjacentTwin ==
  \E i \in 1 .. (Len(Stored) - 1) :
    /\ Stored[i] = wx
    /\ Equal(key[Stored[i]], key[Stored[i + 1]])

\* C11: Insert(key) with key already in the chain: with assertions enabled
\* the assertion fails before any link is written, the chain and the memory
\* are as they were; with assertions disabled a second node with an equal
\* key is linked right next to its twin and the chain is no longer strictly
\* ascending.
C11_DuplicateInsert ==
  [][ /\ (~dupCalled /\ dupCalled' /\ ~ndebug) =>
            /\ err' = <<"assert", "Insert">>
            /\ UNCHANGED <<nalloc, key, next, wbuf>>
            /\ Chain' = Chain
      /\ (~dupCalled /\ dupCalled' /\ ndebug) =>
            /\ err' = NoErr
            /\ wpc' = "link"
            /\ UNCHANGED <<next, wbuf>>
      /\ (InsertPublish /\ dupCalled) =>
            /\ ndebug
            /\ Len(Stored') = Len(Stored) + 1
            /\ AdjacentTwin'
            /\ ~StrictlyAscending(StoredKeySeq') ]_vars

\* with assertions disabled a duplicate was linked in, next to its twin, in
\* a chain that holds another key as well
C11_Witness ==
  /\ ndebug
  /\ dupCalled
  /\ wpc = "idle"
  /\ Len(Stored) = 3
  /\ AdjacentTwin
  /\ ~StrictlyAscending(StoredKeySeq)

\* ------------------------------------------------------------------ C12
\* key(), operator*, Next(), operator++ or Prev() is called on an iterator
\* that is not valid
InvalidUse ==
  /\ ~Valid(it)
  /\ \/ IterKey
     \/ IterNext
     \/ PrevCall

\* C12: key(), operator*, Next(), operator++ or Prev() on an iterator that
\* is not valid fails at the Valid() assertion: the call ends with the
\* assertion failure, the iterator's position and the chain are unchanged
\* and no result is returned.
C12_InvalidFailsFast ==
  [][ InvalidUse =>
        /\ err'[1] = "assert"
        /\ it' = it
        /\ UNCHANGED <<rop, rkey, rres>>
        /\ UNCHANGED <<nalloc, key, next, wbuf>> ]_vars

\* ------------------------------------------------------------------ C13
\* the steps of the writer inside Insert
WriterOpStep ==
  \/ InsertLink
  \/ InsertPublish

\* the steps of the reader inside Contains, Seek, SeekToLast and Prev
ReaderOpStep ==
  \/ ReaderFind
  \/ ContainsReturn
  \/ SeekReturn
  \/ FindLastTest
  \/ FindLastStep
  \/ SeekToLastReturn
  \/ FindLessThanTest
  \/ FindLessThanStep
  \/ PrevReturn

\* the loop of a forward iteration: for (; it != end(); ++it)
TraverseStep ==
  /\ trav = "fwd"
  /\ Valid(it)
  /\ IterNext

\* the nodes from n to the end of the chain
NodesFrom(n) == Len(ChainFrom(next, n, MaxInserts + 2))

\* the steps the reader's operation has left at most, if nothing is
\* published meanwhile: two per node from x on (test and body of the loop)
ReaderRank ==
  IF rpc = "idle" THEN 0
  ELSE 2 * NodesFrom(rx) + (IF rpc \in {"fl2", "flt2"} THEN 1 ELSE 2)

\* the steps Insert has left
WriterRank == IF wpc = "link" THEN 2 ELSE IF wpc = "publish" THEN 1 ELSE 0

\* a thread inside an operation can take its next step whatever the other
\* thread does
NonBlocking ==
  (err = NoErr) =>
    /\ (rpc # "idle") => ENABLED ReaderOpStep
    /\ (wpc \in {"link", "publish"}) => ENABLED WriterOpStep

\* C13: every operation ends after finitely many steps without waiting for
\* the other thread, also while the writer runs its (finitely many) Inserts
\* concurrently: a thread inside an operation always has a step to take,
\* each step brings it nearer to the return (or fails), only the publishing
\* store of an Insert puts more nodes in front of a reader, and each ++ of a
\* forward iteration moves nearer to the end of the chain, where the
\* iterator equals end().
C13_Terminates ==
  /\ []NonBlocking
  /\ [][ /\ ReaderOpStep => (ReaderRank' < ReaderRank \/ err' # NoErr)
         /\ WriterOpStep => (WriterRank' < WriterRank \/ err' # NoErr)
         /\ TraverseStep =>
              /\ NodesFrom(it') < NodesFrom(it)
              /\ ~Valid(it') => ~IterNotEqual(it', end_')
         /\ (rpc # "idle" /\ rpc' # "idle" /\ ReaderRank' > ReaderRank)
              => InsertPublish
         /\ (trav = "fwd" /\ ~ReaderStep /\ NodesFrom(it') > NodesFrom(it))
              => InsertPublish ]_vars

\* Each thread keeps running: a thread inside an operation takes its next
\* step, and a thread in the iteration loop executes the next ++.
FairSpec ==
  /\ Spec
  /\ WF_vars(WriterOpStep)
  /\ WF_vars(ReaderOpStep)
  /\ WF_vars(TraverseStep)

\* The same under fair scheduling: a reader inside an operation gets back to
\* its caller, a writer inside Insert returns, and a forward iteration that
\* is carried on (the list still being there) leaves each position.
FairTermination ==
  /\ (rpc # "idle") ~> (rpc = "idle" \/ err # NoErr)
  /\ (wpc \in {"link", "publish"}) ~> (wpc = "idle" \/ err # NoErr)
  /\ \A n \in 1 .. MaxInserts :
       (trav = "fwd" /\ Valid(it) /\ Len(visited) = n)
         ~> \/ ~(trav = "fwd" /\ Valid(it) /\ Len(visited) = n)
            \/ err # NoErr
            \/ ~live

\* SeekToLast returned on a chain of three keys, one of them published while
\* it ran
C13_Witness ==
  /\ SeekToLastDone
  /\ ~Clean
  /\ Valid(it)
  /\ Len(Stored) = 3

\* ------------------------------------------------------------------ C14
\* the nodes NewNode returned that were not deleted
Allocated == (1 .. nalloc) \ freed

\* C14: once the list is destroyed every node it allocated, head_ and the
\* inserted ones, is released.
C14_DestroyReleasesAll ==
  ~live => Allocated = {}

\* ------------------------------------------------------------------ C15
\* the links of the nodes that were in the chain before the step and are
\* different after it
ChangedLinks == {n \in Published : next'[n] # next[n]}

NotNewNode(n) == n # wx

\* C15: Insert changes the successor link of exactly one node that existed
\* before (the predecessor, at the publishing store) and nothing else of
\* the list: no key and no other link of an existing node changes, no node
\* is unlinked or freed, the nodes reachable before stay reachable in the
\* same order with the new node between two of them, and head_ stays the
\* first node.
C15_InsertFrame ==
  [][ (<<nalloc, key, next, wbuf>>' # <<nalloc, key, next, wbuf>>) =>
        /\ \A n \in 1 .. nalloc : key'[n] = key[n]
        /\ nalloc' >= nalloc
        /\ freed' = freed
        /\ UNCHANGED <<begin_, end_>>
        /\ Chain'[1] = head_
        /\ IF InsertPublish
             THEN /\ ChangedLinks = {wprev}
                  /\ next'[wprev] = wx
                  /\ Len(Chain') = Len(Chain) + 1
                  /\ SelectSeq(Chain', NotNewNode) = Chain
             ELSE /\ ChangedLinks = {}
                  /\ Chain' = Chain ]_vars

\* an Insert has put its node between two nodes of the chain
C15_Witness ==
  /\ wpc = "idle"
  /\ err = NoErr
  /\ Len(Chain) = 4
  /\ wx = Chain[3]
  /\ next[wprev] = wx
  /\ Chain[2] = wprev

\* ------------------------------------------------------------------ C16
PrevDone == rop = "Prev" /\ ReaderIdle
KeysBefore(k) == {j \in StoredKeys : compare_(j, k) < 0}

LastBefore(ch, r, k) ==
  \E i \in 1 .. (Len(ch) - 1) :
    /\ ch[i] = r
    /\ \A j \in 2 .. i : compare_(key[ch[j]], k) < 0
    /\ compare_(key[ch[i + 1]], k) >= 0

\* C17 as claimed: FindLessThan(key) walks from head_ while
\* comparator(current.next.key, key) < 0 and returns the last node strictly
\* before key; it dereferences a null successor's key when the list is
\* empty or when key is <= all stored elements, and in the remaining cases
\* returns without a null dereference.
C17_FindLessThanAsClaimed ==
  LET ch == Chain
      ks == {key[ch[i]] : i \in 2 .. Len(ch)}
  IN  \A k \in Keys :
        LET r == FindLessThan(next, k)
        IN  /\ (r = Crash) <=>
                  \/ ks = {}
                  \/ \A j \in ks : compare_(k, j) <= 0
            /\ (r # Crash) => LastBefore(ch, r, k)

\* C17, amended: FindLessThan(key) walks from head_ while
\* comparator(current.next.key, key) < 0 and returns the last node strictly
\* before key (head_ when no stored key is before key); it dereferences a
\* null successor's key when the list is empty or when every stored key is
\* strictly less than key, and in the remaining cases (some stored key is
\* >= key, which includes key <= all stored elements) it returns without a
\* null dereference.  Prev's scan, step by step, agrees with it.
C17_FindLessThanWalk ==
  LET ch == Chain
      ks == {key[ch[i]] : i \in 2 .. Len(ch)}
  IN  /\ \A k \in Keys :
           LET r == FindLessThan(next, k)
           IN  /\ (r = Crash) <=> (\A j \in ks : compare_(j, k) < 0)
               /\ (r # Crash) => LastBefore(ch, r, k)
      /\ (err = <<"nullderef", "Prev">> /\ rpc = "flt") =>
           FindLessThan(next, rkey) = Crash
      /\ (PrevDone /\ ks = snap) => it = HideHead(FindLessThan(next, rkey))

\* Prev() from the smaller of two stored keys: key is <= all stored
\* elements, FindLessThan returned head_ and dereferenced no null successor;
\* for a key above all stored keys the walk ends in the null dereference
C17_Witness ==
  /\ PrevDone /\ Clean
  /\ err = NoErr
  /\ ~dupCalled
  /\ Len(Stored) = 2
  /\ rkey = MinKey(StoredKeys)
  /\ ~Valid(it)
  /\ FindLessThan(next, rkey) = head_
  /\ \E k \in Keys : FindLessThan(next, k) = Crash

\* ------------------------------------------------------------------ C18
\* C18: a forward traversal (SeekToFirst(), then Next() until invalid) that
\* Inserts of distinct keys interleave with at every step stands on keys in
\* strictly ascending order (each Next() moves to a strictly greater key or
\* to invalid), never on head_ and never twice on a key, always on a node
\* of the chain, and misses no key that was in the chain when it started.
C18_ForwardUnderInserts ==
  (trav = "fwd" /\ ~dupCalled) =>
    /\ StrictlyAscending(visited)
    /\ it # head_
    /\ SeqRange(visited) \subseteq StoredKeys
    /\ \A i \in 1 .. Len(visited) : ~Equal(visited[i], key[head_])
    /\ Valid(it) =>
         /\ it \in SeqRange(Stored)
         /\ visited # <<>>
         /\ key[it] = visited[Len(visited)]
    /\ \A k \in snap :
         \/ k \in SeqRange(visited)
         \/ Valid(it) /\ compare_(key[it], k) < 0
    /\ ~Valid(it) => snap \subseteq SeqRange(visited)

\* a traversal started on one key and ran to the end while two more keys
\* were published: one ahead of the iterator, which it visited, and one
\* behind it
C18_Witness ==
  /\ ~dupCalled
  /\ FwdDone
  /\ rop = "Next"
  /\ Cardinality(snap) = 1
  /\ Len(visited) = 2
  /\ Len(Stored) = 3
  /\ snap \subseteq SeqRange(visited)

====
